---- MODULE Spec2Model ----
(***************************************************************************)
(* The HTTP service of src/index.js: the order-splitting webhook            *)
(* POST /process-csv-orders, the CSV export POST /generate-csv, GET /health *)
(* and the handlers of the termination signals.                            *)
(*                                                                         *)
(* Strings the code only copies are TLA+ strings.  Strings the code takes  *)
(* apart (the note, matched by a regular expression; the name, split on     *)
(* " ") are sequences of atoms: " " is the whitespace character, every      *)
(* other atom stands for a run of non-whitespace characters.               *)
(* A JavaScript object is a function from the keys it has; a key it lacks   *)
(* reads as undefined.                                                     *)
(***************************************************************************)
EXTENDS Integers, Sequences, FiniteSets, TLC

VARIABLES
  alive,      \* the node process is running
  body,       \* body[r]: req.body of webhook delivery r (NoOrder: never delivered)
  remote,     \* remote[r]: what the CSV URL of delivery r serves: [status, file]
  pc,         \* pc[r]: where the handler of r stands
  csvUrl,     \* csvUrl[r]: csvUrlMatch[0], <<>> while there is none
  rows,       \* rows[r]: the rows array
  results,    \* results[r]: the results array
  idx,        \* idx[r]: position of the for..of loop in rows (0 outside the loop)
  calls,      \* calls[r]: the outbound calls r has issued, in order
  replies,    \* replies[r]: the outcomes of r's axios calls, in order
  responses,  \* responses[r]: what was sent on res, in order
  fault,      \* fault[r]: how the CSV acquisition of r failed ("none" if it did not)
  genBody,    \* req.body of the POST /generate-csv request (NoBody: there is none)
  genResponses, \* what was sent on res of the POST /generate-csv request, in order
  signals,    \* the termination signals the process has received, in order
  health      \* the answers GET /health has given, in order

vars == <<alive, body, remote, pc, csvUrl, rows, results, idx, calls, replies,
          responses, fault, genBody, genResponses, signals, health>>

\* the state of the webhook deliveries
hook == <<body, remote, pc, csvUrl, rows, results, idx, calls, replies, responses, fault>>

\* the state outside the webhook deliveries and the process itself
svc == <<genBody, genResponses, signals, health>>

----------------------------------------------------------------------------
(* Bounds of the model *)

MaxRows == 2
MaxItems == 2
MaxNameLen == 3
MaxNoteLen == 3
MaxRecords == 2
MaxSignals == 2
MaxProbes == 2

Reqs == {"r1", "r2"}

SeqsUpTo(S, n) == UNION {[1..k -> S] : k \in 0..n}

----------------------------------------------------------------------------
(* JavaScript helpers *)

Has(obj, k) == k \in DOMAIN obj

\* obj.k || dflt, for values whose falsy forms are undefined and "" (or <<>>)
OrElse(obj, k, empty, dflt) ==
  IF Has(obj, k) /\ obj[k] # empty THEN obj[k] ELSE dflt

IsSpace(c) == c = " "

\* String.prototype.split(" "): the pieces between the separators, empty
\* pieces included; always at least one piece.
RECURSIVE Split(_)
Split(s) ==
  IF \A i \in 1..Len(s) : ~IsSpace(s[i])
    THEN <<s>>
    ELSE LET p == CHOOSE i \in 1..Len(s) :
                    IsSpace(s[i]) /\ \A j \in 1..(i-1) : ~IsSpace(s[j])
         IN  <<SubSeq(s, 1, p - 1)>> \o Split(SubSeq(s, p + 1, Len(s)))

\* Array.prototype.join(" ")
RECURSIVE Join(_)
Join(ts) ==
  IF Len(ts) = 0 THEN <<>>
  ELSE IF Len(ts) = 1 THEN ts[1]
  ELSE ts[1] \o <<" ">> \o Join(Tail(ts))

----------------------------------------------------------------------------
(* note.match(/https:\/\/[^\s]+\.csv/) *)

\* the match may start at s and end at e
MatchesAt(note, s, e) ==
  /\ note[s] = "https://"
  /\ e >= s + 2
  /\ note[e] = ".csv"
  /\ \A k \in (s+1)..(e-1) : ~IsSpace(note[k])

MatchStarts(note) ==
  {s \in 1..Len(note) : \E e \in 1..Len(note) : MatchesAt(note, s, e)}

\* Variant of Match for /[^\s]+\.csv/, the pattern without its scheme.
MatchNoScheme(note) ==
  LET At(s, e) == /\ e >= s + 1
                  /\ note[e] = ".csv"
                  /\ \A k \in s..(e-1) : ~IsSpace(note[k])
      S == {s \in 1..Len(note) : \E e \in 1..Len(note) : At(s, e)}
  IN  IF S = {} THEN <<>>
      ELSE LET s == CHOOSE x \in S : \A y \in S : x <= y
               E == {e \in 1..Len(note) : At(s, e)}
               e == CHOOSE x \in E : \A y \in E : y <= x
           IN  SubSeq(note, s, e)

\* Variant of Match that returns the last match of the note instead of the first.
MatchLast(note) ==
  IF MatchStarts(note) = {} THEN <<>>
  ELSE LET s == CHOOSE x \in MatchStarts(note) : \A y \in MatchStarts(note) : y <= x
           E == {e \in 1..Len(note) : MatchesAt(note, s, e)}
           e == CHOOSE x \in E : \A y \in E : y <= x
       IN  SubSeq(note, s, e)

\* leftmost start, then the longest match ([^\s]+ is greedy); <<>> for null
Match(note) ==
  IF MatchStarts(note) = {} THEN <<>>
  ELSE LET s == CHOOSE x \in MatchStarts(note) : \A y \in MatchStarts(note) : x <= y
           E == {e \in 1..Len(note) : MatchesAt(note, s, e)}
           e == CHOOSE x \in E : \A y \in E : y <= x
       IN  SubSeq(note, s, e)

\* order?.note || ""
NoteOf(order) == OrElse(order, "note", <<>>, <<>>)

\* order?.name || order?.id, as interpolated into a template string
OrderRef(order) ==
  IF Has(order, "name") /\ order.name # "" THEN order.name
  ELSE IF Has(order, "id") THEN order.id ELSE "undefined"

\* ${order.id}
OrderId(order) == IF Has(order, "id") THEN order.id ELSE "undefined"

----------------------------------------------------------------------------
(* The child order request *)

FullName(row) == OrElse(row, "name", <<>>, <<"Gift", " ", "Recipient">>)

FirstName(row) == Split(FullName(row))[1]

\* Variant of LastName that takes the second token alone (rest[0]).
LastNameSecondToken(row) ==
  LET rest == Tail(Split(FullName(row)))
  IN  IF Len(rest) > 0 /\ rest[1] # <<>> THEN rest[1] ELSE <<"Recipient">>

LastName(row) ==
  LET rest == Tail(Split(FullName(row)))
  IN  IF Join(rest) # <<>> THEN Join(rest) ELSE <<"Recipient">>

\* Variant of MapItem that copies the quantity without a default.
MapItemNoDefault(item) ==
  IF Has(item, "quantity")
    THEN [variant_id |-> item.variant_id, quantity |-> item.quantity]
    ELSE [variant_id |-> item.variant_id]

\* item => ({variant_id: item.variant_id, quantity: item.quantity || 1})
MapItem(item) ==
  [variant_id |-> item.variant_id,
   quantity   |-> IF Has(item, "quantity") /\ item.quantity # 0
                    THEN item.quantity ELSE 1]

\* order.line_items?.map(...) || []
LineItems(order) ==
  IF Has(order, "line_items")
    THEN [i \in 1..Len(order.line_items) |-> MapItem(order.line_items[i])]
    ELSE <<>>

\* Variant of NewOrder that reads the province from a province column.
NewOrderProvinceColumn(order, row) ==
  [order |->
    [line_items |-> LineItems(order),
     customer |->
       [first_name |-> FirstName(row),
        last_name  |-> LastName(row),
        email      |-> OrElse(row, "email", "", "placeholder@example.com")],
     shipping_address |->
       [name     |-> FullName(row),
        address1 |-> OrElse(row, "address1", "", ""),
        address2 |-> OrElse(row, "address2", "", ""),
        city     |-> OrElse(row, "city", "", ""),
        province |-> OrElse(row, "province", "", ""),
        zip      |-> OrElse(row, "zip", "", ""),
        country  |-> "United States"],
     financial_status |-> "paid",
     tags |-> <<"Created from CSV of order ", OrderRef(order)>>]]

NewOrder(order, row) ==
  [order |->
    [line_items |-> LineItems(order),
     customer |->
       [first_name |-> FirstName(row),
        last_name  |-> LastName(row),
        email      |-> OrElse(row, "email", "", "placeholder@example.com")],
     shipping_address |->
       [name     |-> FullName(row),
        address1 |-> OrElse(row, "address1", "", ""),
        address2 |-> OrElse(row, "address2", "", ""),
        city     |-> OrElse(row, "city", "", ""),
        province |-> OrElse(row, "state", "", ""),
        zip      |-> OrElse(row, "zip", "", ""),
        country  |-> "United States"],
     financial_status |-> "paid",
     tags |-> <<"Created from CSV of order ", OrderRef(order)>>]]

\* {success: true, orderName: createRes.data.order.name, address: row.address1}
\* (a key whose value is undefined is not serialized)
SuccessRecord(name, row) ==
  IF Has(row, "address1")
    THEN [success |-> TRUE, orderName |-> name, address |-> row.address1]
    ELSE [success |-> TRUE, orderName |-> name]

\* {success: false, error: err.message, row}
FailureRecord(message, row) == [success |-> FALSE, error |-> message, row |-> row]

FetchCall(url) == [kind |-> "fetch", url |-> url]
CreateCall(order, row) == [kind |-> "create", request |-> NewOrder(order, row)]
CancelCall(order) == [kind |-> "cancel", id |-> OrderId(order)]

SkipResponse ==
  [status |-> 200, type |-> "text", text |-> "No CSV file in note - skipping"]
ResultsResponse(res) ==
  [status |-> 200, type |-> "json",
   json |-> [message |-> "Orders processed and parent canceled", results |-> res]]
ErrorResponse ==
  [status |-> 500, type |-> "json", json |-> [error |-> "Internal server error"]]

----------------------------------------------------------------------------
(* The deliveries and the CSV resources the model runs on.  A delivery has  *)
(* the platform's order shape: id, name, note and line_items may each be     *)
(* absent, line_items is a list of items with a variant_id and possibly a    *)
(* quantity.  The admin API answers a successful creation with the created   *)
(* order's name.                                                             *)

NoOrder == [none |-> TRUE]
NoRemote == [status |-> 0, file |-> <<>>]

RowJane ==
  [name |-> <<"Jane", " ", "Doe">>, email |-> "jane@x.com", address1 |-> "1 Main St",
   city |-> "Austin", state |-> "TX", zip |-> "73301"]
RowBob ==
  [name |-> <<"Bob">>, address1 |-> "2 Oak Rd", city |-> "Dallas", state |-> "TX",
   zip |-> "75201"]
RowBare == [phone |-> "555"]

FileRows == {RowJane, RowBob, RowBare}

\* the columns the handler reads
Columns == {"name", "email", "address1", "address2", "city", "state", "zip"}

RowFull ==
  [name |-> <<"Ann", " ", "Lee">>, email |-> "ann@x.com", address1 |-> "4 Pine Ave",
   address2 |-> "Apt 2", city |-> "Waco", state |-> "TX", zip |-> "76701"]

\* RowFull with a column the handler does not read
RowPhone ==
  [name |-> <<"Ann", " ", "Lee">>, email |-> "ann@x.com", address1 |-> "4 Pine Ave",
   address2 |-> "Apt 2", city |-> "Waco", state |-> "TX", zip |-> "76701",
   phone |-> "555"]

\* a row without email and state, with columns the handler does not read
RowNoisy ==
  [name |-> <<"Ann", " ", "Lee">>, address1 |-> "4 Pine Ave", address2 |-> "Apt 2",
   city |-> "Waco", zip |-> "76701", phone |-> "555", province |-> "ZZ"]

\* RowFull with one column missing, or present and empty
FieldRows ==
  {[k \in DOMAIN RowFull \ {c} |-> RowFull[k]] : c \in Columns \ {"name"}}
    \cup {[RowFull EXCEPT ![c] = ""] : c \in Columns \ {"name"}}
    \cup {RowFull, RowNoisy}
FieldFiles == {<<row>> : row \in FieldRows} \cup {<<RowFull, RowPhone>>}
Files == SeqsUpTo(FileRows, MaxRows)

NameAtoms == {"a", "b", " "}
NameRows == {[name |-> n, address1 |-> "3 Elm St"] : n \in SeqsUpTo(NameAtoms, MaxNameLen)}

Statuses == {200, 404}
Remotes == [status : Statuses, file : Files]

Items ==
  {[variant_id |-> "v1", quantity |-> 2, title |-> "Box"], [variant_id |-> "v2"],
   [variant_id |-> "v3", quantity |-> 0]}
BaseItems == <<[variant_id |-> "v1", quantity |-> 2]>>

NoteAtoms == {"https://", "http://", "x", ".csv", " "}
BaseNote == <<"x", " ", "https://", "x", ".csv", " ", "x">>
SampleNotes ==
  {BaseNote,
   <<"https://", "x", ".csv", " ", "https://", "y", ".csv">>,
   <<"x", "https://", "x", ".csv", "https://", "y", ".csv", " ", "https://", "x", ".csv">>,
   <<"http://", "x", ".csv", " ", "x", ".csv">>}

BaseOrder == [id |-> "7", name |-> "#1001", note |-> BaseNote, line_items |-> BaseItems]

NoteOrders ==
  {[BaseOrder EXCEPT !.note = n] : n \in SeqsUpTo(NoteAtoms, MaxNoteLen) \cup SampleNotes}
    \cup {[id |-> "7", name |-> "#1001", line_items |-> BaseItems]}
ItemOrders ==
  {[BaseOrder EXCEPT !.line_items = s] : s \in SeqsUpTo(Items, MaxItems)}
    \cup {[id |-> "7", name |-> "#1001", note |-> BaseNote]}
RefOrders ==
  {[id |-> "7", note |-> BaseNote], [id |-> "7", name |-> "", note |-> BaseNote],
   [note |-> BaseNote]}

\* the pairs <<delivery, CSV resource>> a run starts from
Scenarios ==
  (NoteOrders \X Remotes)
    \cup ((ItemOrders \cup RefOrders) \X {[status |-> 200, file |-> <<RowJane, RowBob>>]})
    \cup ({BaseOrder} \X {[status |-> 200, file |-> <<row>>] : row \in NameRows})
    \cup ((RefOrders \cup {BaseOrder}) \X {[status |-> 200, file |-> f] : f \in FieldFiles})

----------------------------------------------------------------------------
(* app.post("/generate-csv", ...): the body and json2csv                    *)
(*                                                                         *)
(* A record of the body is the sequence of its entries [key, value] in the  *)
(* order Object.keys gives them.  A CSV text is the sequence of its lines,  *)
(* a line the sequence of its cells, a cell a sequence of atoms: json2csv   *)
(* writes a string between double quotes, a number bare and a missing value *)
(* as nothing.                                                             *)

NoBody == [kind |-> "none"]

Undefined == [t |-> "undefined", v |-> ""]

\* Object.keys(record)
Keys(record) == [i \in 1..Len(record) |-> record[i].key]

\* record[key]
Lookup(record, key) ==
  IF \E i \in 1..Len(record) : record[i].key = key
    THEN record[CHOOSE i \in 1..Len(record) : record[i].key = key].value
    ELSE Undefined

\* json2csv, a cell: strings quoted, numbers bare, undefined empty
Cell(value) ==
  IF value.t = "string" THEN <<"\"", value.v, "\"">>
  ELSE IF value.t = "number" THEN <<value.v>>
  ELSE <<>>

\* json2csv, the header line: the field labels, quoted
HeaderLine(fields) == [i \in 1..Len(fields) |-> <<"\"", fields[i], "\"">>]

\* json2csv, processRow: one cell per field
RowLine(fields, record) == [i \in 1..Len(fields) |-> Cell(Lookup(record, fields[i]))]

\* json2csv, new Parser({fields}).parse(data): the header, then the lines of
\* the records; includeEmptyRows is off by default, so a record all of whose
\* cells are empty gives no line
Parse(fields, data) ==
  LET lines == [i \in 1..Len(data) |-> RowLine(fields, data[i])]
      HasValue(line) == \E k \in 1..Len(line) : line[k] # <<>>
  IN  <<HeaderLine(fields)>> \o SelectSeq(lines, HasValue)

\* Variant of Fields that collects the keys of every record.
RECURSIVE FieldsOfAll(_)
FieldsOfAll(data) ==
  IF Len(data) = 0 THEN <<>>
  ELSE LET before == FieldsOfAll(SubSeq(data, 1, Len(data) - 1))
           seen == {before[i] : i \in 1..Len(before)}
       IN  before \o SelectSeq(Keys(data[Len(data)]), LAMBDA k : k \notin seen)

\* const fields = Object.keys(data[0])
Fields(data) == Keys(data[1])

InvalidDataResponse == [status |-> 400, text |-> "Invalid data"]

\* res.header("Content-Type", "text/csv"); res.attachment(...); res.send(csv)
CsvResponse(csv) ==
  [status |-> 200, contentType |-> "text/csv", attachment |-> "order_history.csv",
   csv |-> csv]

\* Variant of GenerateCsvResponse without the test of data.length.
GenerateCsvResponseUnchecked(data) ==
  IF data.kind # "array" THEN InvalidDataResponse
  ELSE IF Len(data.items) = 0 THEN CsvResponse(<<>>)
  ELSE CsvResponse(Parse(Fields(data.items), data.items))

\* the answer of the handler to the body data
GenerateCsvResponse(data) ==
  IF data.kind # "array" \/ Len(data.items) = 0
    THEN InvalidDataResponse
    ELSE CsvResponse(Parse(Fields(data.items), data.items))

GenEntries ==
  {[key |-> "a", value |-> [t |-> "string", v |-> "x"]],
   [key |-> "a", value |-> [t |-> "string", v |-> "y"]],
   [key |-> "b", value |-> [t |-> "number", v |-> "7"]]}

\* the records over the keys a and b, in either key order
GenRecords ==
  {rec \in SeqsUpTo(GenEntries, 2) :
     \A i, j \in 1..Len(rec) : rec[i].key = rec[j].key => i = j}

\* the bodies: the sequences of records, and a body that is no sequence
GenBodies ==
  {[kind |-> "array", items |-> d] : d \in SeqsUpTo(GenRecords, MaxRecords)}
    \cup {[kind |-> "object"]}

----------------------------------------------------------------------------
(* State after construction: the server listens; one webhook delivery or    *)
(* one POST /generate-csv request is on its way                             *)

\* the server has started and no handler has run
Started ==
  /\ alive = TRUE
  /\ pc = [r \in Reqs |-> "idle"]
  /\ csvUrl = [r \in Reqs |-> <<>>]
  /\ rows = [r \in Reqs |-> <<>>]
  /\ results = [r \in Reqs |-> <<>>]
  /\ idx = [r \in Reqs |-> 0]
  /\ calls = [r \in Reqs |-> <<>>]
  /\ replies = [r \in Reqs |-> <<>>]
  /\ responses = [r \in Reqs |-> <<>>]
  /\ fault = [r \in Reqs |-> "none"]
  /\ genResponses = <<>>
  /\ signals = <<>>
  /\ health = <<>>

Init ==
  /\ Started
  /\ \/ \E sc \in Scenarios :
          /\ body = [r \in Reqs |-> IF r = "r1" THEN sc[1] ELSE NoOrder]
          /\ remote = [r \in Reqs |-> IF r = "r1" THEN sc[2] ELSE NoRemote]
          /\ genBody = NoBody
     \/ /\ body = [r \in Reqs |-> NoOrder]
        /\ remote = [r \in Reqs |-> NoRemote]
        /\ genBody \in GenBodies

----------------------------------------------------------------------------
(* app.post("/process-csv-orders", ...) *)

\* Variant of Receive that remembers the payloads it has seen and answers a
\* payload seen before without processing it.
ReceiveDeduplicates(r) ==
  /\ alive /\ pc[r] = "idle" /\ body[r] # NoOrder
  /\ LET csvUrlMatch == Match(NoteOf(body[r]))
         seen == \E q \in Reqs \ {r} : pc[q] # "idle" /\ body[q] = body[r]
     IN  IF csvUrlMatch = <<>> \/ seen
           THEN /\ responses' = [responses EXCEPT ![r] = Append(@, SkipResponse)]
                /\ pc' = [pc EXCEPT ![r] = "done"]
                /\ UNCHANGED <<csvUrl, rows, calls>>
           ELSE /\ csvUrl' = [csvUrl EXCEPT ![r] = csvUrlMatch]
                /\ rows' = [rows EXCEPT ![r] = <<>>]
                /\ calls' = [calls EXCEPT ![r] = Append(@, FetchCall(csvUrlMatch))]
                /\ pc' = [pc EXCEPT ![r] = "connecting"]
                /\ UNCHANGED responses
  /\ UNCHANGED <<svc, alive, body, remote, results, idx, replies, fault>>

\* The handler up to its first await: the note check, then https.get.
Receive(r) ==
  /\ alive /\ pc[r] = "idle" /\ body[r] # NoOrder
  /\ LET csvUrlMatch == Match(NoteOf(body[r]))
     IN  IF csvUrlMatch = <<>>
           THEN /\ responses' = [responses EXCEPT ![r] = Append(@, SkipResponse)]
                /\ pc' = [pc EXCEPT ![r] = "done"]
                /\ UNCHANGED <<csvUrl, rows, calls>>
           ELSE /\ csvUrl' = [csvUrl EXCEPT ![r] = csvUrlMatch]
                /\ rows' = [rows EXCEPT ![r] = <<>>]
                /\ calls' = [calls EXCEPT ![r] = Append(@, FetchCall(csvUrlMatch))]
                /\ pc' = [pc EXCEPT ![r] = "connecting"]
                /\ UNCHANGED responses
  /\ UNCHANGED <<svc, alive, body, remote, results, idx, replies, fault>>

\* The connection cannot be established: the ClientRequest that https.get
\* returned emits 'error'.  Nothing listens on it, so the emitter throws, the
\* exception is uncaught and the process exits.
ConnectFail(r) ==
  /\ alive /\ pc[r] = "connecting"
  /\ alive' = FALSE
  /\ fault' = [fault EXCEPT ![r] = "connect"]
  /\ UNCHANGED <<svc, body, remote, pc, csvUrl, rows, results, idx, calls, replies, responses>>

\* The response callback: whatever its status, the body is piped to csvParser().
OnResponse(r) ==
  /\ alive /\ pc[r] = "connecting"
  /\ pc' = [pc EXCEPT ![r] = "streaming"]
  /\ UNCHANGED <<svc, alive, body, remote, csvUrl, rows, results, idx, calls, replies,
                 responses, fault>>

\* .on("data", (row) => rows.push(row))
OnData(r) ==
  /\ alive /\ pc[r] = "streaming"
  /\ Len(rows[r]) < Len(remote[r].file)
  /\ rows' = [rows EXCEPT ![r] = Append(@, remote[r].file[Len(@) + 1])]
  /\ UNCHANGED <<svc, alive, body, remote, pc, csvUrl, results, idx, calls, replies,
                 responses, fault>>

\* Variant of Continue whose loop stops one row early.
ContinueSkipsLast(r, k) ==
  IF k + 1 < Len(rows[r])
    THEN /\ idx' = [idx EXCEPT ![r] = k + 1]
         /\ calls' = [calls EXCEPT ![r] = Append(@, CreateCall(body[r], rows[r][k + 1]))]
         /\ pc' = [pc EXCEPT ![r] = "creating"]
    ELSE /\ idx' = [idx EXCEPT ![r] = 0]
         /\ calls' = [calls EXCEPT ![r] = Append(@, CancelCall(body[r]))]
         /\ pc' = [pc EXCEPT ![r] = "cancelling"]

\* Variant of Continue that does not await the last creation call before it
\* issues the cancellation call.
ContinueEagerCancel(r, k) ==
  IF k < Len(rows[r])
    THEN /\ idx' = [idx EXCEPT ![r] = k + 1]
         /\ calls' = [calls EXCEPT ![r] =
                        IF k + 1 = Len(rows[r])
                          THEN @ \o <<CreateCall(body[r], rows[r][k + 1]), CancelCall(body[r])>>
                          ELSE Append(@, CreateCall(body[r], rows[r][k + 1]))]
         /\ pc' = [pc EXCEPT ![r] = "creating"]
    ELSE /\ idx' = [idx EXCEPT ![r] = 0]
         /\ calls' = [calls EXCEPT ![r] = Append(@, CancelCall(body[r]))]
         /\ pc' = [pc EXCEPT ![r] = "cancelling"]

\* The handler after k rows are done: the creation call of row k+1, or, after
\* the last row, the cancellation call of the parent.
Continue(r, k) ==
  IF k < Len(rows[r])
    THEN /\ idx' = [idx EXCEPT ![r] = k + 1]
         /\ calls' = [calls EXCEPT ![r] = Append(@, CreateCall(body[r], rows[r][k + 1]))]
         /\ pc' = [pc EXCEPT ![r] = "creating"]
    ELSE /\ idx' = [idx EXCEPT ![r] = 0]
         /\ calls' = [calls EXCEPT ![r] = Append(@, CancelCall(body[r]))]
         /\ pc' = [pc EXCEPT ![r] = "cancelling"]

\* .on("end", ...): resolve(); the handler resumes after await fetchCsv().
OnEnd(r) ==
  /\ alive /\ pc[r] = "streaming"
  /\ Len(rows[r]) = Len(remote[r].file)
  /\ results' = [results EXCEPT ![r] = <<>>]
  /\ Continue(r, 0)
  /\ UNCHANGED <<svc, alive, body, remote, csvUrl, rows, replies, responses, fault>>

\* .on("error", ...): reject(err); the route's catch answers 500.
OnParserError(r) ==
  /\ alive /\ pc[r] = "streaming"
  /\ fault' = [fault EXCEPT ![r] = "parse"]
  /\ responses' = [responses EXCEPT ![r] = Append(@, ErrorResponse)]
  /\ pc' = [pc EXCEPT ![r] = "done"]
  /\ UNCHANGED <<svc, alive, body, remote, csvUrl, rows, results, idx, calls, replies>>

CreatedNames == {"#2001"}
ErrorMessages == {"Request failed with status code 422"}

\* axios.post(.../orders.json) resolves
CreateOk(r, name) ==
  /\ alive /\ pc[r] = "creating"
  /\ results' = [results EXCEPT ![r] = Append(@, SuccessRecord(name, rows[r][idx[r]]))]
  /\ replies' = [replies EXCEPT ![r] = Append(@, [ok |-> TRUE, name |-> name])]
  /\ Continue(r, idx[r])
  /\ UNCHANGED <<svc, alive, body, remote, csvUrl, rows, responses, fault>>

\* Variant of CreateFail that records nothing for the failed row.
CreateFailNoRecord(r, message) ==
  /\ alive /\ pc[r] = "creating"
  /\ replies' = [replies EXCEPT ![r] = Append(@, [ok |-> FALSE, message |-> message])]
  /\ Continue(r, idx[r])
  /\ UNCHANGED <<svc, alive, body, remote, csvUrl, rows, results, responses, fault>>

\* Variant of CreateFail without the try/catch inside the loop: the error
\* reaches the route's catch.
CreateFailAborts(r, message) ==
  /\ alive /\ pc[r] = "creating"
  /\ replies' = [replies EXCEPT ![r] = Append(@, [ok |-> FALSE, message |-> message])]
  /\ responses' = [responses EXCEPT ![r] = Append(@, ErrorResponse)]
  /\ pc' = [pc EXCEPT ![r] = "done"]
  /\ UNCHANGED <<svc, alive, body, remote, csvUrl, rows, results, idx, calls, fault>>

\* axios.post(.../orders.json) rejects: the catch inside the loop
CreateFail(r, message) ==
  /\ alive /\ pc[r] = "creating"
  /\ results' = [results EXCEPT ![r] = Append(@, FailureRecord(message, rows[r][idx[r]]))]
  /\ replies' = [replies EXCEPT ![r] = Append(@, [ok |-> FALSE, message |-> message])]
  /\ Continue(r, idx[r])
  /\ UNCHANGED <<svc, alive, body, remote, csvUrl, rows, responses, fault>>

\* res.json({message: "Orders processed and parent canceled", results})
Respond(r) ==
  /\ responses' = [responses EXCEPT ![r] = Append(@, ResultsResponse(results[r]))]
  /\ pc' = [pc EXCEPT ![r] = "done"]

\* axios.post(.../cancel.json) resolves
CancelOk(r) ==
  /\ alive /\ pc[r] = "cancelling"
  /\ replies' = [replies EXCEPT ![r] = Append(@, [ok |-> TRUE, name |-> "cancel"])]
  /\ Respond(r)
  /\ UNCHANGED <<svc, alive, body, remote, csvUrl, rows, results, idx, calls, fault>>

\* Variant of CancelFail without the try/catch around the cancellation.
CancelFailThrows(r, message) ==
  /\ alive /\ pc[r] = "cancelling"
  /\ replies' = [replies EXCEPT ![r] = Append(@, [ok |-> FALSE, message |-> message])]
  /\ responses' = [responses EXCEPT ![r] = Append(@, ErrorResponse)]
  /\ pc' = [pc EXCEPT ![r] = "done"]
  /\ UNCHANGED <<svc, alive, body, remote, csvUrl, rows, results, idx, calls, fault>>

\* axios.post(.../cancel.json) rejects: logged only
CancelFail(r, message) ==
  /\ alive /\ pc[r] = "cancelling"
  /\ replies' = [replies EXCEPT ![r] = Append(@, [ok |-> FALSE, message |-> message])]
  /\ Respond(r)
  /\ UNCHANGED <<svc, alive, body, remote, csvUrl, rows, results, idx, calls, fault>>

ReqNext(r) ==
  \/ Receive(r)
  \/ ConnectFail(r)
  \/ OnResponse(r)
  \/ OnData(r)
  \/ OnEnd(r)
  \/ OnParserError(r)
  \/ \E name \in CreatedNames : CreateOk(r, name)
  \/ \E message \in ErrorMessages : CreateFail(r, message)
  \/ CancelOk(r)
  \/ \E message \in ErrorMessages : CancelFail(r, message)

WebhookNext == \E r \in Reqs : ReqNext(r)

\* app.post("/generate-csv", ...): the handler runs to its end in one step
GenerateCsv ==
  /\ alive /\ genBody # NoBody /\ genResponses = <<>>
  /\ genResponses' = <<GenerateCsvResponse(genBody)>>
  /\ UNCHANGED <<alive, hook, genBody, signals, health>>

Next == WebhookNext \/ GenerateCsv

Spec == Init /\ [][Next]_vars

----------------------------------------------------------------------------
(* Two deliveries of the webhook in one process, their steps interleaved *)

OtherOrder ==
  [id |-> "8", name |-> "#1002", note |-> <<"https://", "y", ".csv">>,
   line_items |-> <<[variant_id |-> "v2", quantity |-> 1]>>]

ConcOrders == {BaseOrder, OtherOrder}

ConcRemotes ==
  {[status |-> 200, file |-> <<RowJane, RowBob>>], [status |-> 200, file |-> <<RowBare>>]}

InitConc ==
  /\ Started
  /\ body \in [Reqs -> ConcOrders]
  /\ remote \in [Reqs -> ConcRemotes]
  /\ genBody = NoBody

SpecConc == InitConc /\ [][WebhookNext]_vars

----------------------------------------------------------------------------
(* process.on("SIGTERM" | "SIGINT", ...) and app.get("/health", ...), beside *)
(* one delivery of the webhook                                               *)

Signals == {"SIGTERM", "SIGINT"}

OkResponse == [status |-> 200, text |-> "OK"]

\* Variant of Signal with the default disposition: the process exits.
SignalExits(sig) ==
  /\ alive /\ Len(signals) < MaxSignals
  /\ signals' = Append(signals, sig)
  /\ alive' = FALSE
  /\ UNCHANGED <<hook, genBody, genResponses, health>>

\* The listener of the signal: one console.log, nothing else.  signals is the
\* sequence of the signals logged.
Signal(sig) ==
  /\ alive /\ Len(signals) < MaxSignals
  /\ signals' = Append(signals, sig)
  /\ UNCHANGED <<alive, hook, genBody, genResponses, health>>

\* res.status(200).send('OK')
Health ==
  /\ alive /\ Len(health) < MaxProbes
  /\ health' = Append(health, OkResponse)
  /\ UNCHANGED <<alive, hook, genBody, genResponses, signals>>

OpsRemotes ==
  {[status |-> 200, file |-> <<RowJane, RowBob>>], [status |-> 200, file |-> <<>>]}

InitOps ==
  /\ Started
  /\ body = [r \in Reqs |-> IF r = "r1" THEN BaseOrder ELSE NoOrder]
  /\ \E f \in OpsRemotes : remote = [r \in Reqs |-> IF r = "r1" THEN f ELSE NoRemote]
  /\ genBody = NoBody

NextOps ==
  \/ WebhookNext
  \/ \E sig \in Signals : Signal(sig)
  \/ Health

SpecOps == InitOps /\ [][NextOps]_vars

----------------------------------------------------------------------------
(* Vocabulary of the properties *)

IsPrefix(s, t) == Len(s) <= Len(t) /\ SubSeq(t, 1, Len(s)) = s

OfKind(cs, kind) == SelectSeq(cs, LAMBDA c : c.kind = kind)

\* the CSV decode of r has succeeded (the "end" event resolved the promise)
Decoded(r) ==
  /\ csvUrl[r] # <<>>
  /\ fault[r] = "none"
  /\ pc[r] \in {"creating", "cancelling", "done"}

\* the rows of the CSV file of r, in file order
FileOf(r) == remote[r].file

\* what a run over the file of r has to issue, from the fetch to the cancellation
ExpectedCalls(r) ==
  <<[kind |-> "fetch", url |-> csvUrl[r]]>>
    \o [i \in 1..Len(FileOf(r)) |->
          [kind |-> "create", request |-> NewOrder(body[r], FileOf(r)[i])]]
    \o <<[kind |-> "cancel", id |-> OrderId(body[r])]>>

\* r has been answered with the 200 results summary
Answered(r) ==
  /\ Len(responses[r]) = 1
  /\ responses[r][1].status = 200
  /\ responses[r][1].type = "json"

----------------------------------------------------------------------------
(* C1: once the CSV decode of a request has succeeded with N rows, the calls *)
(* it has issued are always the beginning of: the fetch, one creation call   *)
(* per row built from the rows in file order, one cancellation call for the  *)
(* parent id; and when the request is answered they are exactly that, so N   *)
(* creation calls and one cancellation were issued and none was repeated,    *)
(* whichever creation calls failed.                                          *)
C1_CallsPerRow ==
  \A r \in Reqs :
    Decoded(r) =>
      /\ IsPrefix(calls[r], ExpectedCalls(r))
      /\ pc[r] = "done" =>
           /\ calls[r] = ExpectedCalls(r)
           /\ Len(OfKind(calls[r], "create")) = Len(FileOf(r))
           /\ Len(OfKind(calls[r], "cancel")) = 1

\* two rows, every creation call failed, the parent was cancelled all the same
C1_Witness ==
  \E r \in Reqs :
    /\ Decoded(r) /\ pc[r] = "done"
    /\ Len(FileOf(r)) = 2
    /\ FileOf(r)[1] # FileOf(r)[2]
    /\ \A i \in 1..2 : ~replies[r][i].ok
    /\ Len(OfKind(calls[r], "cancel")) = 1

----------------------------------------------------------------------------
(* C2: the results sequence only grows by appending: its length is always    *)
(* the number of creation calls that have completed, a step never changes or *)
(* removes a record already in it, and in the 200 results response it has    *)
(* one record per decoded row, the i-th record belonging to the i-th row.    *)
CompletedCreates(r) ==
  Len(OfKind(calls[r], "create")) - (IF pc[r] = "creating" THEN 1 ELSE 0)

BelongsTo(rec, row) ==
  IF rec.success
    THEN IF Has(row, "address1")
           THEN Has(rec, "address") /\ rec.address = row.address1
           ELSE ~Has(rec, "address")
    ELSE rec.row = row

C2_LengthInv ==
  \A r \in Reqs :
    /\ Len(results[r]) = CompletedCreates(r)
    /\ Answered(r) =>
         LET out == responses[r][1].json.results
         IN  /\ Len(out) = Len(FileOf(r))
             /\ \A i \in 1..Len(out) : BelongsTo(out[i], FileOf(r)[i])

\* C2: the length and final-content invariant always holds, and every step
\* leaves the old results sequence as a prefix of the new one.
C2_AppendOnly ==
  []C2_LengthInv /\ [][\A r \in Reqs : IsPrefix(results[r], results'[r])]_vars

\* a results response of two records, a failure followed by a success
C2_Witness ==
  \E r \in Reqs :
    /\ Answered(r)
    /\ Len(responses[r][1].json.results) = 2
    /\ ~responses[r][1].json.results[1].success
    /\ responses[r][1].json.results[2].success

----------------------------------------------------------------------------
(* C3: an order whose note holds no URL ending in .csv (the note may be      *)
(* absent or empty) is answered with the 200 skip response as soon as it is  *)
(* received, and no CSV fetch, creation call or cancellation call is issued. *)

\* some stretch of the note without whitespace starts with a scheme and ends in .csv
HasCsvUrl(note) ==
  \E s, e \in 1..Len(note) :
    /\ s < e
    /\ note[s] \in {"https://", "http://"}
    /\ note[e] = ".csv"
    /\ \A k \in s..e : note[k] # " "

\* C3: a received order without such a URL in its note has the skip response
\* and no outbound call.
C3_SkipWithoutUrl ==
  \A r \in Reqs :
    (body[r] # NoOrder /\ pc[r] # "idle" /\ ~HasCsvUrl(NoteOf(body[r]))) =>
      /\ responses[r] = <<SkipResponse>>
      /\ calls[r] = <<>>
      /\ pc[r] = "done"

\* a skipped order whose note names a .csv file, but not by a URL
C3_Witness ==
  \E r \in Reqs :
    /\ body[r] # NoOrder
    /\ ~HasCsvUrl(NoteOf(body[r]))
    /\ \E k \in 1..Len(NoteOf(body[r])) : NoteOf(body[r])[k] = ".csv"
    /\ responses[r] = <<SkipResponse>>

----------------------------------------------------------------------------
(* C4: when the CSV resource answers with an HTTP error status, the request  *)
(* issues no creation call and no cancellation call, and whatever it is      *)
(* answered with is the 500 response {error: "Internal server error"}.       *)
C4_HttpErrorIs500 ==
  \A r \in Reqs :
    (/\ csvUrl[r] # <<>>
     /\ pc[r] \in {"streaming", "creating", "cancelling", "done"}
     /\ remote[r].status >= 400) =>
      /\ OfKind(calls[r], "create") = <<>>
      /\ OfKind(calls[r], "cancel") = <<>>
      /\ \A k \in 1..Len(responses[r]) : responses[r][k] = ErrorResponse

----------------------------------------------------------------------------
(* C5: when the connection to the CSV URL cannot be established, or the CSV  *)
(* parser emits an error (rows may have been parsed before it), the request  *)
(* issues no creation call and no cancellation call and is answered with the *)
(* 500 response.                                                             *)
C5_DecodeFailsAtomically ==
  \A r \in Reqs :
    fault[r] # "none" =>
      /\ OfKind(calls[r], "create") = <<>>
      /\ OfKind(calls[r], "cancel") = <<>>
      /\ responses[r] = <<ErrorResponse>>

----------------------------------------------------------------------------
(* C6: a request that has been received has got exactly one response, or it  *)
(* has got none yet and a step of it is still to come: no request is left    *)
(* without a response and without a step that leads to one.                  *)
C6_AlwaysAnswered ==
  \A r \in Reqs :
    pc[r] # "idle" =>
      \/ Len(responses[r]) = 1
      \/ Len(responses[r]) = 0 /\ ENABLED ReqNext(r)

----------------------------------------------------------------------------
(* C7: the failure of a creation call stays in its row: the i-th record is   *)
(* the success record of row i when the i-th creation call succeeded and the *)
(* failure record, with the error message and row i, when it failed; after a *)
(* failure the calls of the later rows are still issued; and a request whose *)
(* CSV decode succeeded is never answered with the 500 response.             *)
C7_FailureContained ==
  \A r \in Reqs :
    Decoded(r) =>
      /\ \A i \in 1..Len(results[r]) :
           IF replies[r][i].ok
             THEN /\ results[r][i].success
                  /\ results[r][i].orderName = replies[r][i].name
                  /\ BelongsTo(results[r][i], FileOf(r)[i])
                  /\ DOMAIN results[r][i] \subseteq {"success", "orderName", "address"}
             ELSE results[r][i] =
                    [success |-> FALSE, error |-> replies[r][i].message,
                     row |-> FileOf(r)[i]]
      /\ \A i \in 1..Len(FileOf(r)) :
           (i <= Len(results[r]) /\ ~replies[r][i].ok /\ i < Len(FileOf(r))) =>
             Len(OfKind(calls[r], "create")) >= i + 1
      /\ \A k \in 1..Len(responses[r]) : responses[r][k] # ErrorResponse

\* the first of two rows failed, the second was created
C7_Witness ==
  \E r \in Reqs :
    /\ Decoded(r)
    /\ Len(results[r]) = 2
    /\ ~replies[r][1].ok /\ replies[r][2].ok
    /\ ~results[r][1].success /\ results[r][2].success

----------------------------------------------------------------------------
(* C8: once the CSV decode has succeeded the only response is HTTP 200 with  *)
(* {message, results}, results holding one record per row; it is sent when   *)
(* the cancellation call completes, the same whether that call succeeded or  *)
(* failed, and the cancellation is issued once.                              *)
C8_AlwaysResults ==
  \A r \in Reqs :
    Decoded(r) =>
      /\ Len(OfKind(calls[r], "cancel")) <= 1
      /\ pc[r] # "done" => responses[r] = <<>>
      /\ pc[r] = "done" =>
           /\ responses[r] =
                <<[status |-> 200, type |-> "json",
                   json |-> [message |-> "Orders processed and parent canceled",
                             results |-> results[r]]]>>
           /\ Len(results[r]) = Len(FileOf(r))
           /\ Len(replies[r]) = Len(FileOf(r)) + 1

\* the cancellation failed after a creation succeeded, and the answer is the summary
C8_Witness ==
  \E r \in Reqs :
    /\ Decoded(r) /\ pc[r] = "done"
    /\ Len(FileOf(r)) >= 1
    /\ replies[r][1].ok
    /\ ~replies[r][Len(replies[r])].ok
    /\ Answered(r)

----------------------------------------------------------------------------
(* C9: the line items of the child order requests.                           *)

\* the line_items list of the parent, empty when the payload has none
ParentItems(r) == IF Has(body[r], "line_items") THEN body[r].line_items ELSE <<>>

\* the requests of the creation calls r has issued
Requests(r) ==
  LET cs == OfKind(calls[r], "create")
  IN  [i \in 1..Len(cs) |-> cs[i].request.order]

\* C9 as claimed: every child order request has as many line items as the
\* parent, in the same order, each with the parent item's variant identifier
\* and the parent item's quantity.
C9_ItemsVerbatim ==
  \A r \in Reqs : \A i \in 1..Len(Requests(r)) :
    LET items == Requests(r)[i].line_items
    IN  /\ Len(items) = Len(ParentItems(r))
        /\ \A k \in 1..Len(items) :
             /\ items[k].variant_id = ParentItems(r)[k].variant_id
             /\ Has(ParentItems(r)[k], "quantity")
             /\ items[k].quantity = ParentItems(r)[k].quantity

\* C9 as amended: every child order request has as many line items as the
\* parent, in the same order, each holding the parent item's variant
\* identifier and a quantity, nothing else; the quantity is the parent
\* item's, and 1 where the parent item has no quantity or quantity 0; the
\* list is the same for every row of the webhook.
C9_ItemsCarried ==
  \A r \in Reqs : \A i \in 1..Len(Requests(r)) :
    LET items == Requests(r)[i].line_items
    IN  /\ Len(items) = Len(ParentItems(r))
        /\ \A k \in 1..Len(items) :
             LET parent == ParentItems(r)[k]
             IN  /\ DOMAIN items[k] = {"variant_id", "quantity"}
                 /\ items[k].variant_id = parent.variant_id
                 /\ IF Has(parent, "quantity") /\ parent.quantity # 0
                      THEN items[k].quantity = parent.quantity
                      ELSE items[k].quantity = 1
        /\ items = Requests(r)[1].line_items

\* two rows were submitted for a parent of two items, one of them without quantity
C9_Witness ==
  \E r \in Reqs :
    /\ Len(Requests(r)) = 2
    /\ Len(ParentItems(r)) = 2
    /\ \E k \in 1..2 : ~Has(ParentItems(r)[k], "quantity")
    /\ \E k \in 1..2 : Has(ParentItems(r)[k], "quantity") /\ ParentItems(r)[k].quantity > 1

----------------------------------------------------------------------------
(* C10: the name split rule of the child order's customer.                   *)

\* the name of row i of r: the row's name, "Gift Recipient" when absent or empty
NameOfRow(r, i) ==
  LET row == FileOf(r)[i]
  IN  IF Has(row, "name") /\ row.name # <<>> THEN row.name
      ELSE <<"Gift", " ", "Recipient">>

\* C10 as claimed: first_name is the first token of the name split on single
\* spaces, last_name the remaining tokens joined by single spaces, or
\* "Recipient" if there are no remaining tokens; the shipping name is the name.
C10_SplitByTokens ==
  \A r \in Reqs : \A i \in 1..Len(Requests(r)) :
    LET tokens == Split(NameOfRow(r, i))
        rest == Tail(tokens)
    IN  /\ Requests(r)[i].customer.first_name = tokens[1]
        /\ Requests(r)[i].customer.last_name =
             (IF Len(rest) = 0 THEN <<"Recipient">> ELSE Join(rest))
        /\ Requests(r)[i].shipping_address.name = NameOfRow(r, i)

\* C10 as amended: first_name is what precedes the first space of the name
\* (the whole name if it has no space); last_name is what follows the first
\* space, or "Recipient" if the name has no space or nothing follows its first
\* space; the shipping address name is the unsplit name.
C10_SplitAtFirstSpace ==
  \A r \in Reqs : \A i \in 1..Len(Requests(r)) :
    LET name == NameOfRow(r, i)
        spaces == {p \in 1..Len(name) : name[p] = " "}
        customer == Requests(r)[i].customer
    IN  /\ Requests(r)[i].shipping_address.name = name
        /\ IF spaces = {}
             THEN customer.first_name = name /\ customer.last_name = <<"Recipient">>
             ELSE LET p == CHOOSE x \in spaces : \A y \in spaces : x <= y
                      after == SubSeq(name, p + 1, Len(name))
                  IN  /\ customer.first_name = SubSeq(name, 1, p - 1)
                      /\ customer.last_name =
                           (IF after = <<>> THEN <<"Recipient">> ELSE after)

\* a creation call for a name whose first token is followed by two spaces
C10_Witness ==
  \E r \in Reqs :
    /\ Len(Requests(r)) = 1
    /\ LET name == NameOfRow(r, 1)
       IN  /\ Len(name) = 3
           /\ name[1] # " " /\ name[2] = " " /\ name[3] = " "
    /\ Requests(r)[1].customer.last_name = <<" ">>

----------------------------------------------------------------------------
(* C11: every child order request is built from its row with defaults and    *)
(* fixed fields: email is the row's email or "placeholder@example.com";      *)
(* address1, address2, city, province (from the state column) and zip are    *)
(* the row's values or the empty string; country is "United States" and      *)
(* financial_status "paid"; the tag names the parent's name, or its id when  *)
(* the name is absent (or empty); two rows that agree on the columns the     *)
(* handler reads give the same request.                                      *)

\* the value of column c of a row, the empty string when the row lacks it
ColumnOf(row, c) == IF c \in DOMAIN row THEN row[c] ELSE ""

\* a row cut down to the columns the handler reads
Recognized(row) == [c \in DOMAIN row \cap Columns |-> row[c]]

C11_RowDefaults ==
  \A r \in Reqs : \A i \in 1..Len(Requests(r)) :
    LET row == FileOf(r)[i]
        req == Requests(r)[i]
    IN  /\ req.customer.email =
             (IF ColumnOf(row, "email") = "" THEN "placeholder@example.com"
              ELSE row.email)
        /\ req.shipping_address.address1 = ColumnOf(row, "address1")
        /\ req.shipping_address.address2 = ColumnOf(row, "address2")
        /\ req.shipping_address.city = ColumnOf(row, "city")
        /\ req.shipping_address.province = ColumnOf(row, "state")
        /\ req.shipping_address.zip = ColumnOf(row, "zip")
        /\ req.shipping_address.country = "United States"
        /\ req.financial_status = "paid"
        /\ req.tags[1] = "Created from CSV of order "
        /\ (Has(body[r], "name") /\ body[r].name # "") => req.tags[2] = body[r].name
        /\ (~(Has(body[r], "name") /\ body[r].name # "") /\ Has(body[r], "id")) =>
             req.tags[2] = body[r].id
        /\ \A j \in 1..Len(Requests(r)) :
             Recognized(FileOf(r)[j]) = Recognized(row) => Requests(r)[j] = req

\* a request built for a parent without name from a row without email that has
\* columns the handler does not read
C11_Witness ==
  \E r \in Reqs :
    /\ Len(Requests(r)) = 1
    /\ ~Has(body[r], "name") /\ Has(body[r], "id")
    /\ ~Has(FileOf(r)[1], "email") /\ Has(FileOf(r)[1], "province")
    /\ Requests(r)[1].customer.email = "placeholder@example.com"
    /\ Requests(r)[1].shipping_address.province = ""
    /\ Requests(r)[1].tags[2] = body[r].id

----------------------------------------------------------------------------
(* C12: POST /generate-csv with a body that is an empty sequence or no       *)
(* sequence is answered, once, with HTTP 400 and the text "Invalid data";    *)
(* the answer carries no CSV content, no CSV content type and no download    *)
(* header.                                                                   *)

\* the body of the request is a non-empty sequence
GenValid == genBody # NoBody /\ genBody.kind = "array" /\ Len(genBody.items) > 0

C12_InvalidInput400 ==
  (genBody # NoBody /\ ~GenValid) =>
    /\ Len(genResponses) <= 1
    /\ genResponses = <<>> => ENABLED GenerateCsv
    /\ \A k \in 1..Len(genResponses) :
         /\ genResponses[k].status = 400
         /\ genResponses[k].text = "Invalid data"
         /\ DOMAIN genResponses[k] \cap {"csv", "attachment", "contentType"} = {}

\* an empty sequence was answered with 400
C12_Witness ==
  /\ genBody # NoBody
  /\ genBody.kind = "array"
  /\ Len(genBody.items) = 0
  /\ Len(genResponses) = 1
  /\ genResponses[1].status = 400

----------------------------------------------------------------------------
(* C13: the columns of the CSV of POST /generate-csv.                        *)

\* the keys of the first record of the body, in their order
FirstKeys == [i \in 1..Len(genBody.items[1]) |-> genBody.items[1][i].key]

\* the line of a record under the columns of the first record
LineOf(record) == [k \in 1..Len(FirstKeys) |-> Cell(Lookup(record, FirstKeys[k]))]

\* the record has one of the keys of the first record
SharesKey(record) ==
  \E i \in 1..Len(record) : \E k \in 1..Len(FirstKeys) : record[i].key = FirstKeys[k]

\* the answer is the CSV download whose first line names the keys of the first record
CsvOfFirstKeys ==
  /\ Len(genResponses) = 1
  /\ genResponses[1].status = 200
  /\ genResponses[1].contentType = "text/csv"
  /\ genResponses[1].attachment = "order_history.csv"
  /\ genResponses[1].csv[1] = [k \in 1..Len(FirstKeys) |-> <<"\"", FirstKeys[k], "\"">>]

\* C13 as claimed: the column set is the keys of the first record in their
\* order, and after the header the CSV has one line per record, with the
\* record's value for each column and nothing for a column the record lacks.
C13_OneLinePerRecord ==
  (GenValid /\ genResponses # <<>>) =>
    /\ CsvOfFirstKeys
    /\ Len(genResponses[1].csv) = 1 + Len(genBody.items)
    /\ \A i \in 1..Len(genBody.items) :
         genResponses[1].csv[i + 1] = LineOf(genBody.items[i])

\* C13 as amended: the column set is the keys of the first record in their
\* order; after the header the CSV has, in the order of the records, one line
\* for every record that has at least one of these keys, with the record's
\* value for each column and nothing for a column the record lacks; a record
\* that has none of these keys gives no line; a key that only a later record
\* has appears nowhere; a ragged record is not an error.
C13_ColumnsOfFirst ==
  (GenValid /\ genResponses # <<>>) =>
    LET kept == SelectSeq(genBody.items, SharesKey)
    IN  /\ CsvOfFirstKeys
        /\ Len(genResponses[1].csv) = 1 + Len(kept)
        /\ \A i \in 1..Len(kept) : genResponses[1].csv[i + 1] = LineOf(kept[i])

\* the first record has the keys b, a in this order, the second lacks b
C13_Witness ==
  /\ GenValid
  /\ Len(genBody.items) = 2
  /\ FirstKeys = <<"b", "a">>
  /\ Len(genBody.items[2]) = 1
  /\ genBody.items[2][1].key = "a"
  /\ Len(genResponses) = 1
  /\ Len(genResponses[1].csv) = 3
  /\ genResponses[1].csv[3][1] = <<>>
  /\ genResponses[1].csv[3][2] # <<>>

----------------------------------------------------------------------------
(* C14: within one /process-csv-orders request the steps are strictly        *)
(* sequential: at most one outbound operation of the request is in flight at *)
(* any time; the first creation call is issued only after the CSV stream has *)
(* ended; the creation call of row i+1 is issued only after the call of row  *)
(* i has completed; the cancellation call is issued only after the last      *)
(* creation call has completed; the response is sent only after the          *)
(* cancellation call has completed, and no outbound call follows it.         *)

\* the creation and cancellation calls r has issued
Posts(r) == SelectSeq(calls[r], LAMBDA c : c.kind \in {"create", "cancel"})

\* the CSV fetch of r is under way
Fetching(r) == pc[r] \in {"connecting", "streaming"}

\* the outbound operations of r that have been issued and have not completed
InFlight(r) == (IF Fetching(r) THEN 1 ELSE 0) + (Len(Posts(r)) - Len(replies[r]))

C14_OneAtATime ==
  \A r \in Reqs :
    /\ Len(replies[r]) <= Len(Posts(r))
    /\ InFlight(r) <= 1
    /\ Posts(r) # <<>> => (~Fetching(r) /\ rows[r] = FileOf(r))
    /\ \A i \in 1..Len(Posts(r)) :
         /\ Posts(r)[i].kind = "cancel" => (i = Len(rows[r]) + 1 /\ i = Len(Posts(r)))
         /\ i > 1 => Len(replies[r]) >= i - 1
    /\ responses[r] # <<>> => InFlight(r) = 0
    /\ Answered(r) =>
         /\ Len(replies[r]) = Len(rows[r]) + 1
         /\ Posts(r)[Len(Posts(r))].kind = "cancel"

\* a step that issues a creation or cancellation call does so after every
\* earlier one has completed, and an answered request issues no call
C14_IssueAfterCompletion ==
  \A r \in Reqs :
    /\ calls'[r] # calls[r] =>
         /\ responses[r] = <<>>
         /\ Len(calls'[r]) = Len(calls[r]) + 1
         /\ InFlight(r) = 1 => (Len(replies'[r]) = Len(Posts(r)) \/ pc[r] = "streaming")
    /\ responses'[r] # responses[r] => calls'[r] = calls[r]

C14_Sequential == [](C14_OneAtATime) /\ [][C14_IssueAfterCompletion]_vars

\* a request over two rows has been answered after its three calls completed
C14_Witness ==
  \E r \in Reqs :
    /\ Answered(r)
    /\ Len(rows[r]) = 2
    /\ Len(Posts(r)) = 3
    /\ Len(replies[r]) = 3

----------------------------------------------------------------------------
(* C15: a request whose note has a substring matching                        *)
(* https://<one or more non-whitespace characters>.csv performs exactly one  *)
(* CSV fetch, to the first such substring (the match that starts first in    *)
(* the note, taken as far as the pattern reaches); a request whose note has  *)
(* none performs no fetch; a further matching URL is never fetched.          *)

\* SubSeq(note, s, e) is the first match of the pattern in the note
FirstMatch(note, s, e) ==
  /\ MatchesAt(note, s, e)
  /\ \A s2 \in 1..Len(note) : \A e2 \in 1..Len(note) :
       MatchesAt(note, s2, e2) => (s <= s2 /\ (s2 = s => e2 <= e))

Fetches(r) == OfKind(calls[r], "fetch")

C15_FetchesFirstMatch ==
  \A r \in Reqs :
    LET note == NoteOf(body[r])
    IN  /\ Len(Fetches(r)) <= 1
        /\ pc[r] # "idle" =>
             IF MatchStarts(note) = {}
               THEN Fetches(r) = <<>>
               ELSE /\ Len(Fetches(r)) = 1
                    /\ calls[r][1].kind = "fetch"
                    /\ \E s \in 1..Len(note) : \E e \in 1..Len(note) :
                         /\ FirstMatch(note, s, e)
                         /\ Fetches(r)[1].url = SubSeq(note, s, e)

\* a note with several matching URLs, the request run to its answer
C15_Witness ==
  \E r \in Reqs :
    /\ Answered(r)
    /\ Cardinality(MatchStarts(NoteOf(body[r]))) >= 2
    /\ Len(Fetches(r)) = 1
    /\ Fetches(r)[1].url = <<"https://", "x", ".csv">>

----------------------------------------------------------------------------
(* C16: concurrent /process-csv-orders requests are isolated: under every    *)
(* interleaving of their steps the rows, the creation calls, the             *)
(* cancellation target and the results of a request are those of its own     *)
(* payload and CSV, and the request goes on to its answer as it would when   *)
(* run alone, whatever happens to the other request.                         *)

\* the result record of row i of r, as its own reply and its own row give it
OwnRecord(r, i) ==
  IF replies[r][i].ok
    THEN SuccessRecord(replies[r][i].name, FileOf(r)[i])
    ELSE FailureRecord(replies[r][i].message, FileOf(r)[i])

\* what r holds, has issued and has answered comes from its own payload and CSV
OwnData(r) ==
  /\ IsPrefix(rows[r], FileOf(r))
  /\ csvUrl[r] # <<>> => IsPrefix(calls[r], ExpectedCalls(r))
  /\ csvUrl[r] = <<>> => calls[r] = <<>>
  /\ Len(results[r]) <= Len(FileOf(r))
  /\ Len(results[r]) <= Len(replies[r])
  /\ \A i \in 1..Len(results[r]) : results[r][i] = OwnRecord(r, i)
  /\ Answered(r) => responses[r][1] = ResultsResponse(results[r])

\* r is under way and nothing has failed in r
UnderWay(r) == pc[r] \notin {"idle", "done"} /\ fault[r] = "none"

C16_Isolated ==
  \A r \in Reqs :
    /\ OwnData(r)
    /\ UnderWay(r) => ENABLED ReqNext(r)

\* the data half of C16 alone
C16_OwnDataOnly == \A r \in Reqs : OwnData(r)

----------------------------------------------------------------------------
(* C17: no state is kept between requests: a second delivery of the same     *)
(* payload, with the same CSV of N rows, issues the fetch, N creation calls  *)
(* and one cancellation call again, exactly as the first delivery did.       *)

C17_NotIdempotent ==
  \A a \in Reqs : \A b \in Reqs \ {a} :
    (/\ body[a] = body[b]
     /\ remote[a] = remote[b]
     /\ Answered(a)
     /\ pc[b] = "done"
     /\ fault[b] = "none") =>
       /\ Answered(b)
       /\ calls[b] = calls[a]
       /\ Len(OfKind(calls[b], "create")) = Len(FileOf(b))
       /\ Len(OfKind(calls[b], "cancel")) = 1

\* the same payload over a CSV of two rows, delivered twice and answered twice
C17_Witness ==
  /\ body["r1"] = body["r2"]
  /\ remote["r1"] = remote["r2"]
  /\ Len(FileOf("r1")) = 2
  /\ Answered("r1")
  /\ Answered("r2")
  /\ Len(OfKind(calls["r2"], "create")) = 2
  /\ Len(OfKind(calls["r2"], "cancel")) = 1

----------------------------------------------------------------------------
(* C18: a termination signal (SIGTERM or SIGINT) is only logged: the step    *)
(* that handles it changes nothing of the process or of the requests in      *)
(* flight, the process never goes down because of a signal, and after any    *)
(* number of signals GET /health is served and answers HTTP 200 "OK".        *)

C18_HealthOk ==
  /\ \A k \in 1..Len(health) : health[k].status = 200 /\ health[k].text = "OK"
  /\ ~alive => \E r \in Reqs : fault[r] = "connect"
  /\ (\A r \in Reqs : fault[r] # "connect") =>
       /\ alive
       /\ Len(health) < MaxProbes => ENABLED Health
       /\ \A r \in Reqs : UnderWay(r) => ENABLED ReqNext(r)

C18_SignalOnlyLogged ==
  signals' # signals =>
    /\ alive' = alive
    /\ hook' = hook
    /\ health' = health
    /\ genResponses' = genResponses

====
